---- MODULE Spec2Model ----
(***************************************************************************)
(* BeeHayv behaviour tracker: the relational store (subjects, definitions, *)
(* daily_scores), the REST handlers of api.py, the direct-store methods of *)
(* engine.py, the averages aggregation of get_averages, and the Streamlit  *)
(* dashboard session of app.py.                                            *)
(*                                                                         *)
(* Encoding notes.                                                         *)
(*  - A calendar date is the tuple <<year, month, day>>; NaT is <<>>.      *)
(*  - A nullable integer column holds <<v>> for the value v and <<>> for   *)
(*    NULL (NaN once read into a dataframe).                               *)
(*  - A mean is the exact rational [num, den] of the float that pandas     *)
(*    computes as sum / count.                                             *)
(*  - DateCreated / submitted_at timestamps are not modelled.              *)
(*  - The three values of st.session_state["authentication_status"] are    *)
(*    the strings "True", "False" and "None"; a session_state key that is  *)
(*    not set holds <<>> and a set key holds <<value>>.                    *)
(***************************************************************************)
EXTENDS Integers, Sequences, FiniteSets, TLC

VARIABLES subjects, definitions, daily_scores,
          nextSubjectID, nextDefinitionID, nextLogID,
          response,
          feedback,               \* the feedback table, in insertion order
          calls,                  \* get_averages requests in flight, per client
          credentials,            \* usernames of config.yaml
          authentication_status,  \* st.session_state["authentication_status"]
          session_username,       \* st.session_state["username"]
          weekly_df, monthly_df,  \* st.session_state.weekly_df / .monthly_df
          plot_data               \* the dataframe of the last chart drawn

dbVars == <<subjects, definitions, daily_scores,
            nextSubjectID, nextDefinitionID, nextLogID>>
sessionVars == <<credentials, authentication_status, session_username,
                 weekly_df, monthly_df, plot_data>>
vars == <<subjects, definitions, daily_scores,
          nextSubjectID, nextDefinitionID, nextLogID, response,
          feedback, calls, credentials, authentication_status,
          session_username, weekly_df, monthly_df, plot_data>>

(***************************************************************************)
(* Bounds of the model.                                                    *)
(***************************************************************************)
\* Spec: rows ever inserted into subjects, definitions and daily_scores together
MaxRows == 4
\* SpecAverages, SpecConcurrent: scores ever logged
MaxLogID == 2
\* SpecConcurrent: clients that can have a get_averages request in flight
MaxClients == 2
\* SpecDashboard: rows ever inserted into the four tables by one session
MaxSessionRows == 3
\* SpecPlot: rows of a held averages frame
MaxPlotRows == 2

(***************************************************************************)
(* Input domains.                                                          *)
(***************************************************************************)
get_current_user == "RKBobe"
Users == {"RKBobe", "guest"}

NULL == <<>>
NaT == <<>>
Some(v) == <<v>>

\* 2023-01-01 Sun (ISO 2022-W52), 2023-01-02 Mon (ISO 2023-W01),
\* 2023-01-09 Mon (ISO 2023-W02); 2300-01-01 lies beyond the nanosecond
\* Timestamp range.
Dates == {<<2023, 1, 1>>, <<2023, 1, 2>>, <<2023, 1, 9>>, <<2300, 1, 1>>}
ScoreValues == {Some(3), Some(4)}
\* the one date and score logged while the whole store is exercised
StoreDates == {<<2023, 1, 1>>}
StoreScores == {Some(3)}
Labels == {" a"}
BehaviorNames == {" b"}
NoteTexts == {"n"}

\* str.strip() on the texts of the input domains
strip(s) ==
  CASE s = " a" -> "a"
    [] s = " b" -> "b"
    [] OTHER -> s

(***************************************************************************)
(* Proleptic Gregorian calendar, as datetime / pandas compute it.          *)
(***************************************************************************)
is_leap(y) == y % 4 = 0 /\ (y % 100 # 0 \/ y % 400 = 0)

days_in_month(y, m) ==
  IF m = 2 THEN (IF is_leap(y) THEN 29 ELSE 28)
  ELSE IF m \in {4, 6, 9, 11} THEN 30 ELSE 31

days_before_year(y) ==
  (y - 1) * 365 + ((y - 1) \div 4) - ((y - 1) \div 100) + ((y - 1) \div 400)

RECURSIVE days_before_month(_, _)
days_before_month(y, m) ==
  IF m = 1 THEN 0 ELSE days_before_month(y, m - 1) + days_in_month(y, m - 1)

\* ordinal of a date, 0001-01-01 being day 1
ymd2ord(d) == days_before_year(d[1]) + days_before_month(d[1], d[2]) + d[3]

\* 0 = Monday .. 6 = Sunday
weekday(d) == (ymd2ord(d) + 6) % 7

\* ordinal of the Monday of ISO week 1 of year y
isoweek1monday(y) ==
  LET firstday == ymd2ord(<<y, 1, 1>>)
      firstweekday == (firstday + 6) % 7
      week1monday == firstday - firstweekday
  IN IF firstweekday > 3 THEN week1monday + 7 ELSE week1monday

\* isocalendar reporting the calendar year of the date (dt.year) as the year
isocalendar_gregorian(d) ==
  LET today == ymd2ord(d)
      week1monday == isoweek1monday(d[1])
      week == (today - week1monday) \div 7
      day == ((today + 6) % 7) + 1
  IN IF today < week1monday
     THEN [year |-> d[1],
           week |-> ((today - isoweek1monday(d[1] - 1)) \div 7) + 1,
           day |-> day]
     ELSE IF week >= 52 /\ today >= isoweek1monday(d[1] + 1)
     THEN [year |-> d[1], week |-> 1, day |-> day]
     ELSE [year |-> d[1], week |-> week + 1, day |-> day]

\* Series.dt.isocalendar(): [year, week, day] of a date
isocalendar(d) ==
  LET today == ymd2ord(d)
      week1monday == isoweek1monday(d[1])
      week == (today - week1monday) \div 7
      day == ((today + 6) % 7) + 1
  IN IF today < week1monday
     THEN [year |-> d[1] - 1,
           week |-> ((today - isoweek1monday(d[1] - 1)) \div 7) + 1,
           day |-> day]
     ELSE IF week >= 52 /\ today >= isoweek1monday(d[1] + 1)
     THEN [year |-> d[1] + 1, week |-> 1, day |-> day]
     ELSE [year |-> d[1], week |-> week + 1, day |-> day]

(***************************************************************************)
(* Dataframe steps of get_averages.  A dataframe is a sequence of rows.    *)
(***************************************************************************)
\* first and last calendar date whose midnight a nanosecond Timestamp holds
TimestampMin == <<1677, 9, 22>>
TimestampMax == <<2262, 4, 11>>

date_le(a, b) ==
  \/ a[1] < b[1]
  \/ a[1] = b[1] /\ a[2] < b[2]
  \/ a[1] = b[1] /\ a[2] = b[2] /\ a[3] <= b[3]

\* scores_df['date'] = pd.to_datetime(scores_df['date'], errors='coerce'):
\* the DATE column is NOT NULL, so the only value coerced to NaT is a date
\* outside the nanosecond Timestamp range
to_datetime(df) ==
  [i \in DOMAIN df |->
     [df[i] EXCEPT !.date = IF date_le(TimestampMin, @) /\ date_le(@, TimestampMax)
                            THEN @ ELSE NaT]]

\* to_numeric that reads a NULL as 0
to_numeric_zero(df) ==
  [i \in DOMAIN df |-> [df[i] EXCEPT !.score = IF @ = NULL THEN Some(0) ELSE @]]

\* scores_df['score'] = pd.to_numeric(scores_df['score'], errors='coerce'):
\* an INT column holds integers and NULLs only, so nothing is coerced; a
\* NULL reads as NaN, both written NULL here
to_numeric(df) ==
  [i \in DOMAIN df |-> [df[i] EXCEPT !.score = IF @ = NULL THEN NULL ELSE @]]

\* a dropna on the score column that drops nothing
keeps_row_score_blind(r, col) == col = "score" \/ r[col] # <<>>

keeps_row(r, col) == r[col] # <<>>

\* scores_df.dropna(subset=[col], inplace=True)
dropna(df, col) == SelectSeq(df, LAMBDA r : keeps_row(r, col))

\* astype(int) raises on a NaN
astype_int_raises(df) == \E i \in DOMAIN df : df[i].score = NULL

\* the columns added at lines 263-270: score as int, year, weekofyear, month
with_columns(df) ==
  [i \in DOMAIN df |->
     LET iso == isocalendar(df[i].date)
     IN [logid |-> df[i].logid, definitionid |-> df[i].definitionid,
         username |-> df[i].username, date |-> df[i].date, notes |-> df[i].notes,
         score |-> df[i].score[1],
         year |-> iso.year, weekofyear |-> iso.week, month |-> df[i].date[2]]]

row_key(r, cols) == [j \in DOMAIN cols |-> r[cols[j]]]

lex_less(a, b) ==
  \E i \in DOMAIN a : a[i] < b[i] /\ \A j \in 1..(i - 1) : a[j] = b[j]

\* groupby sorts the group keys (sort=True)
RECURSIVE sorted_keys(_)
sorted_keys(S) ==
  IF S = {} THEN <<>>
  ELSE LET m == CHOOSE x \in S : \A y \in S \ {x} : lex_less(x, y)
       IN <<m>> \o sorted_keys(S \ {m})

RECURSIVE sum(_)
sum(s) == IF s = <<>> THEN 0 ELSE Head(s) + sum(Tail(s))

\* a mean rounded down to an integer
mean_floor(s) == [num |-> sum(s) \div Len(s), den |-> 1]

\* agg 'first' in place of 'mean'
mean_first(s) == [num |-> s[1], den |-> 1]

\* agg 'mean': the unrounded quotient sum / count
mean(s) == [num |-> sum(s), den |-> Len(s)]

\* agg 'nunique' in place of 'count'
count_nunique(s) == Cardinality({s[i] : i \in DOMAIN s})

\* agg 'count': the number of non-null values
count(s) == Len(s)

group_scores(df, cols, k) ==
  LET g == SelectSeq(df, LAMBDA r : row_key(r, cols) = k)
  IN [i \in DOMAIN g |-> g[i].score]

\* scores_df.groupby(cols)['score'].agg(['mean', 'count']).reset_index()
groupby_agg(df, cols) ==
  LET ks == sorted_keys({row_key(df[i], cols) : i \in DOMAIN df})
  IN [n \in DOMAIN ks |->
        LET g == group_scores(df, cols, ks[n])
        IN [key |-> ks[n], mean |-> mean(g), count |-> count(g)]]

weekly_cols == <<"definitionid", "year", "weekofyear">>
monthly_cols == <<"definitionid", "year", "month">>

\* rename(...) and to_dict('records')
weekly_records(agg) ==
  [n \in DOMAIN agg |->
     [definitionid |-> agg[n].key[1], year |-> agg[n].key[2],
      weekofyear |-> agg[n].key[3],
      averagescore |-> agg[n].mean, datapointscount |-> agg[n].count]]

monthly_records(agg) ==
  [n \in DOMAIN agg |->
     [definitionid |-> agg[n].key[1], year |-> agg[n].key[2],
      month |-> agg[n].key[3],
      averagescore |-> agg[n].mean, datapointscount |-> agg[n].count]]

\* the body of get_averages after read_sql: [status, weekly, monthly]
compute_averages(scores_df) ==
  IF scores_df = <<>>
  THEN [status |-> 200, weekly |-> <<>>, monthly |-> <<>>]
  ELSE LET clean == dropna(to_numeric(dropna(to_datetime(scores_df), "date")),
                           "score")
           frame == with_columns(clean)
       IN IF clean = <<>>
          THEN [status |-> 200, weekly |-> <<>>, monthly |-> <<>>]
          ELSE IF astype_int_raises(clean)
          THEN [status |-> 500, weekly |-> <<>>, monthly |-> <<>>]
          ELSE [status |-> 200,
                weekly |-> weekly_records(groupby_agg(frame, weekly_cols)),
                monthly |-> monthly_records(groupby_agg(frame, monthly_cols))]

(***************************************************************************)
(* The store: tables created by on_startup / _initialize_database.         *)
(***************************************************************************)
\* ids a request may name: every id issued so far and the next, unissued one
SubjectIDs == 1..nextSubjectID
DefinitionIDs == 1..nextDefinitionID
rows_inserted == (nextSubjectID - 1) + (nextDefinitionID - 1) + (nextLogID - 1)

\* DEFAULT description of DefinitionCreate (None) and of the engine ("")
Descriptions == {"d"}

Reply(op, user, status, detail, rows) ==
  [op |-> op, user |-> user, status |-> status, detail |-> detail,
   rows |-> rows, weekly |-> <<>>, monthly |-> <<>>]

\* REFERENCES subjects(SubjectID)
subject_exists(sid) == \E s \in subjects : s.subjectid = sid
\* REFERENCES definitions(DefinitionID)
definition_exists(did) == \E d \in definitions : d.definitionid = did

\* a cascade that empties daily_scores whenever a definition goes
scores_after_delete_all(dids) == IF dids = {} THEN daily_scores ELSE {}

\* a subject deletion that leaves the subject's definitions behind
definitions_after_delete_kept(sids) == definitions

\* ON DELETE CASCADE from a set of deleted subject ids
definitions_after_delete(sids) == {d \in definitions : d.subjectid \notin sids}
scores_after_delete(dids) == {o \in daily_scores : o.definitionid \notin dids}
definition_ids_of(sids) ==
  {d.definitionid : d \in {x \in definitions : x.subjectid \in sids}}

\* SELECT d.*, s.subjectlabel FROM definitions d JOIN subjects s
\*   ON d.subjectid = s.subjectid WHERE d.username = :user
joined_definitions(user) ==
  {[definitionid |-> d.definitionid, subjectid |-> d.subjectid,
    username |-> d.username, behaviorname |-> d.behaviorname,
    description |-> d.description, subjectlabel |-> s.subjectlabel] :
     <<d, s>> \in {p \in definitions \X subjects :
                     p[1].subjectid = p[2].subjectid /\ p[1].username = user}}

\* _get_single_definition(connection, username, definition_id)
get_single_definition(user, did) ==
  {j \in joined_definitions(user) : j.definitionid = did}

\* SELECT * FROM daily_scores WHERE username = :user
select_scores(user) == {o \in daily_scores : o.username = user}

\* the orders in which a SELECT without ORDER BY may return a set of rows
row_orders(S) ==
  {f \in [1..Cardinality(S) -> S] : \A i, j \in DOMAIN f : f[i] = f[j] => i = j}

\* no client is inside get_averages
Clients == 1..MaxClients
idle_call == [pc |-> "idle", snapshot |-> {}, seen |-> {}]
no_request_in_flight == calls = [c \in Clients |-> idle_call]

\* a browser session before its first login: streamlit_authenticator starts
\* with authentication_status None, and no averages are held
absent == <<>>
no_session ==
  /\ credentials = {get_current_user}
  /\ authentication_status = "None"
  /\ session_username = absent
  /\ weekly_df = absent
  /\ monthly_df = absent
  /\ plot_data = absent

\* what a store request leaves alone
clientVars == <<feedback, calls, credentials, authentication_status,
                session_username, weekly_df, monthly_df, plot_data>>

Init ==
  /\ subjects = {}
  /\ definitions = {}
  /\ daily_scores = {}
  /\ nextSubjectID = 1
  /\ nextDefinitionID = 1
  /\ nextLogID = 1
  /\ response = Reply("on_startup", "", 200, "", {})
  /\ feedback = <<>>
  /\ no_request_in_flight
  /\ no_session

(***************************************************************************)
(* Inserts shared by api.py and engine.py (same SQL, same tables).         *)
(***************************************************************************)
insert_subject(user, label) ==
  /\ subjects' = subjects \cup
       {[subjectid |-> nextSubjectID, username |-> user, subjectlabel |-> label]}
  /\ nextSubjectID' = nextSubjectID + 1
  /\ UNCHANGED <<definitions, daily_scores, nextDefinitionID, nextLogID>>

\* a SERIAL value is consumed even when the foreign key rejects the row
insert_definition(user, sid, bname, desc) ==
  /\ definitions' =
       IF subject_exists(sid)
       THEN definitions \cup
              {[definitionid |-> nextDefinitionID, subjectid |-> sid,
                username |-> user, behaviorname |-> bname, description |-> desc]}
       ELSE definitions
  /\ nextDefinitionID' = nextDefinitionID + 1
  /\ UNCHANGED <<subjects, daily_scores, nextSubjectID, nextLogID>>

insert_score(user, did, date, score, notes) ==
  /\ daily_scores' =
       IF definition_exists(did)
       THEN daily_scores \cup
              {[logid |-> nextLogID, definitionid |-> did, username |-> user,
                date |-> date, score |-> score, notes |-> notes]}
       ELSE daily_scores
  /\ nextLogID' = nextLogID + 1
  /\ UNCHANGED <<subjects, definitions, nextSubjectID, nextDefinitionID>>

(***************************************************************************)
(* api.py handlers.  Every handler runs as get_current_user.               *)
(***************************************************************************)
add_subject ==
  \E label \in Labels :
    /\ insert_subject(get_current_user, strip(label))
    /\ response' = Reply("add_subject", get_current_user, 200, "",
                         subjects' \ subjects)

get_subjects ==
  /\ response' = Reply("get_subjects", get_current_user, 200, "",
                       {s \in subjects : s.username = get_current_user})
  /\ UNCHANGED dbVars

\* the 404 is raised inside the try block and re-raised as a 500 by the
\* handler's own except clause
update_subject ==
  \E sid \in SubjectIDs, label \in Labels :
    LET hit == {s \in subjects : s.subjectid = sid /\ s.username = get_current_user}
        new == {[s EXCEPT !.subjectlabel = label] : s \in hit}
    IN /\ subjects' = (subjects \ hit) \cup new
       /\ response' =
            IF hit = {}
            THEN Reply("update_subject", get_current_user, 500,
                       "404: Subject not found or user does not have permission", {})
            ELSE Reply("update_subject", get_current_user, 200, "", new)
       /\ UNCHANGED <<definitions, daily_scores,
                      nextSubjectID, nextDefinitionID, nextLogID>>

delete_subject ==
  \E sid \in SubjectIDs :
    LET hit == {s \in subjects : s.subjectid = sid /\ s.username = get_current_user}
        sids == {s.subjectid : s \in hit}
    IN /\ subjects' = subjects \ hit
       /\ definitions' = definitions_after_delete(sids)
       /\ daily_scores' = scores_after_delete(definition_ids_of(sids))
       /\ response' =
            IF hit = {}
            THEN Reply("delete_subject", get_current_user, 500,
                       "404: Subject not found or user does not have permission", {})
            ELSE Reply("delete_subject", get_current_user, 204, "", {})
       /\ UNCHANGED <<nextSubjectID, nextDefinitionID, nextLogID>>

add_definition ==
  \E sid \in SubjectIDs, bname \in BehaviorNames, desc \in Descriptions :
    /\ insert_definition(get_current_user, sid, strip(bname), desc)
    /\ response' =
         IF subject_exists(sid)
         THEN Reply("add_definition", get_current_user, 200, "",
                    {j \in {[definitionid |-> d.definitionid, subjectid |-> d.subjectid,
                             username |-> d.username, behaviorname |-> d.behaviorname,
                             description |-> d.description,
                             subjectlabel |-> s.subjectlabel] :
                              <<d, s>> \in {p \in (definitions' \ definitions) \X subjects :
                                              p[1].subjectid = p[2].subjectid}} :
                       j.username = get_current_user})
         ELSE Reply("add_definition", get_current_user, 500,
                    "foreign key violation", {})

get_definitions ==
  /\ response' = Reply("get_definitions", get_current_user, 200, "",
                       joined_definitions(get_current_user))
  /\ UNCHANGED dbVars

update_definition ==
  \E did \in DefinitionIDs, bname \in BehaviorNames, desc \in Descriptions :
    LET hit == {d \in definitions :
                  d.definitionid = did /\ d.username = get_current_user}
        new == {[d EXCEPT !.behaviorname = bname, !.description = desc] : d \in hit}
    IN /\ definitions' = (definitions \ hit) \cup new
       /\ response' =
            IF hit = {}
            THEN Reply("update_definition", get_current_user, 500,
                       "404: Definition not found or user does not have permission", {})
            ELSE Reply("update_definition", get_current_user, 200, "",
                       {[definitionid |-> d.definitionid, subjectid |-> d.subjectid,
                         username |-> d.username, behaviorname |-> d.behaviorname,
                         description |-> d.description,
                         subjectlabel |-> s.subjectlabel] :
                          <<d, s>> \in {p \in new \X subjects :
                                          p[1].subjectid = p[2].subjectid}})
       /\ UNCHANGED <<subjects, daily_scores,
                      nextSubjectID, nextDefinitionID, nextLogID>>

delete_definition ==
  \E did \in DefinitionIDs :
    LET hit == {d \in definitions :
                  d.definitionid = did /\ d.username = get_current_user}
    IN /\ definitions' = definitions \ hit
       /\ daily_scores' = scores_after_delete({d.definitionid : d \in hit})
       /\ response' =
            IF hit = {}
            THEN Reply("delete_definition", get_current_user, 500,
                       "404: Definition not found or user does not have permission", {})
            ELSE Reply("delete_definition", get_current_user, 204, "", {})
       /\ UNCHANGED <<subjects, nextSubjectID, nextDefinitionID, nextLogID>>

\* ScoreCreate: score is an int and score_date any calendar date
add_score(dates, scores) ==
  \E did \in DefinitionIDs, date \in dates, score \in scores,
     notes \in NoteTexts :
    /\ insert_score(get_current_user, did, date, score, notes)
    /\ response' =
         IF definition_exists(did)
         THEN Reply("add_score", get_current_user, 200, "",
                    daily_scores' \ daily_scores)
         ELSE Reply("add_score", get_current_user, 500, "foreign key violation", {})

get_scores ==
  /\ response' = Reply("get_scores", get_current_user, 200, "",
                       select_scores(get_current_user))
  /\ UNCHANGED dbVars

\* an averages computation that writes its sanitized frame back to the table
get_averages_writeback ==
  \E scores_df \in row_orders(select_scores(get_current_user)) :
    LET out == compute_averages(scores_df)
    IN /\ response' = [op |-> "get_averages", user |-> get_current_user,
                       status |-> out.status, detail |-> "", rows |-> {},
                       weekly |-> out.weekly, monthly |-> out.monthly]
       /\ daily_scores' = {o \in daily_scores :
                             o.username # get_current_user \/ o.score # NULL}
       /\ UNCHANGED <<subjects, definitions,
                      nextSubjectID, nextDefinitionID, nextLogID>>

get_averages ==
  \E scores_df \in row_orders(select_scores(get_current_user)) :
    LET out == compute_averages(scores_df)
    IN /\ response' = [op |-> "get_averages", user |-> get_current_user,
                       status |-> out.status, detail |-> "", rows |-> {},
                       weekly |-> out.weekly, monthly |-> out.monthly]
       /\ UNCHANGED dbVars

(***************************************************************************)
(* engine.py: BehaviorTracker methods, called with any username.  A status *)
(* of 200 stands for a normal return, 500 for a raised exception.          *)
(***************************************************************************)
BehaviorTracker_get_subjects ==
  \E username \in Users :
    /\ response' = Reply("BehaviorTracker.get_subjects", username, 200, "",
                         {s \in subjects : s.username = username})
    /\ UNCHANGED dbVars

BehaviorTracker_get_definitions ==
  \E username \in Users :
    /\ response' = Reply("BehaviorTracker.get_definitions", username, 200, "",
                         joined_definitions(username))
    /\ UNCHANGED dbVars

BehaviorTracker_get_daily_scores ==
  \E username \in Users :
    /\ response' = Reply("BehaviorTracker.get_daily_scores", username, 200, "",
                         select_scores(username))
    /\ UNCHANGED dbVars

BehaviorTracker_add_subject ==
  \E username \in Users, subject_label \in Labels :
    /\ insert_subject(username, strip(subject_label))
    /\ response' = Reply("BehaviorTracker.add_subject", username, 200, "", {})

BehaviorTracker_add_behavior_definition ==
  \E username \in Users, subject_id \in SubjectIDs,
     behavior_name \in BehaviorNames, description \in Descriptions :
    /\ insert_definition(username, subject_id, strip(behavior_name),
                         strip(description))
    /\ response' = Reply("BehaviorTracker.add_behavior_definition", username,
                         IF subject_exists(subject_id) THEN 200 ELSE 500,
                         IF subject_exists(subject_id) THEN ""
                         ELSE "foreign key violation", {})

\* score is passed to the INSERT as given: an integer or None
BehaviorTracker_log_score(dates, scores) ==
  \E username \in Users, definition_id \in DefinitionIDs, date \in dates,
     score \in scores \cup {NULL}, notes \in NoteTexts :
    /\ insert_score(username, definition_id, date, score, strip(notes))
    /\ response' = Reply("BehaviorTracker.log_score", username,
                         IF definition_exists(definition_id) THEN 200 ELSE 500,
                         IF definition_exists(definition_id) THEN ""
                         ELSE "foreign key violation", {})

Next ==
  \/ rows_inserted < MaxRows /\ add_subject /\ UNCHANGED clientVars
  \/ get_subjects /\ UNCHANGED clientVars
  \/ update_subject /\ UNCHANGED clientVars
  \/ delete_subject /\ UNCHANGED clientVars
  \/ rows_inserted < MaxRows /\ add_definition /\ UNCHANGED clientVars
  \/ get_definitions /\ UNCHANGED clientVars
  \/ update_definition /\ UNCHANGED clientVars
  \/ delete_definition /\ UNCHANGED clientVars
  \/ rows_inserted < MaxRows /\ add_score(StoreDates, StoreScores) /\ UNCHANGED clientVars
  \/ get_scores /\ UNCHANGED clientVars
  \/ get_averages /\ UNCHANGED clientVars
  \/ BehaviorTracker_get_subjects /\ UNCHANGED clientVars
  \/ BehaviorTracker_get_definitions /\ UNCHANGED clientVars
  \/ BehaviorTracker_get_daily_scores /\ UNCHANGED clientVars
  \/ rows_inserted < MaxRows /\ BehaviorTracker_add_subject /\ UNCHANGED clientVars
  \/ rows_inserted < MaxRows /\ BehaviorTracker_add_behavior_definition /\ UNCHANGED clientVars
  \/ rows_inserted < MaxRows /\ BehaviorTracker_log_score(StoreDates, StoreScores) /\ UNCHANGED clientVars

Spec == Init /\ [][Next]_vars

(***************************************************************************)
(* The averages of one populated store: RKBobe has one subject with two    *)
(* behaviour definitions (the state after add_subject and two              *)
(* add_definition calls); scores are logged over the whole date and score  *)
(* domain through both the API and the engine.                             *)
(***************************************************************************)
InitAverages ==
  /\ subjects = {[subjectid |-> 1, username |-> get_current_user,
                  subjectlabel |-> "a"]}
  /\ definitions = {[definitionid |-> i, subjectid |-> 1,
                     username |-> get_current_user, behaviorname |-> "b",
                     description |-> "d"] : i \in 1..2}
  /\ daily_scores = {}
  /\ nextSubjectID = 2
  /\ nextDefinitionID = 3
  /\ nextLogID = 1
  /\ response = Reply("add_definition", get_current_user, 200, "", {})
  /\ feedback = <<>>
  /\ no_request_in_flight
  /\ no_session

NextAverages ==
  \/ nextLogID <= MaxLogID /\ add_score(Dates, ScoreValues) /\ UNCHANGED clientVars
  \/ nextLogID <= MaxLogID /\ BehaviorTracker_log_score(Dates, ScoreValues) /\ UNCHANGED clientVars
  \/ get_averages /\ UNCHANGED clientVars

SpecAverages == InitAverages /\ [][NextAverages]_vars

(***************************************************************************)
(* get_averages under concurrent requests.  The handler touches the store  *)
(* once, in pd.read_sql; everything after it works on the dataframe it     *)
(* read.  A request is therefore two steps: the SELECT, and the            *)
(* computation that ends with the response.  calls[c].seen is a history    *)
(* field: the observation sets of the caller that existed between the      *)
(* SELECT of client c's request and now.                                   *)
(***************************************************************************)
get_averages_read(c) ==
  /\ calls[c].pc = "idle"
  /\ calls' = [calls EXCEPT ![c] =
                 [pc |-> "read",
                  snapshot |-> select_scores(get_current_user),
                  seen |-> {select_scores(get_current_user)}]]
  /\ UNCHANGED <<dbVars, response, feedback, sessionVars>>

\* a handler that runs a second SELECT for the monthly grouping
get_averages_return_reread(c) ==
  /\ calls[c].pc = "read"
  /\ \E scores_df \in row_orders(calls[c].snapshot),
        again \in row_orders(select_scores(get_current_user)) :
       response' = [op |-> "get_averages", user |-> get_current_user,
                    status |-> compute_averages(scores_df).status,
                    detail |-> "", rows |-> {},
                    weekly |-> compute_averages(scores_df).weekly,
                    monthly |-> compute_averages(again).monthly]
  /\ calls' = [calls EXCEPT ![c] = idle_call]
  /\ UNCHANGED <<dbVars, feedback, sessionVars>>

get_averages_return(c) ==
  /\ calls[c].pc = "read"
  /\ \E scores_df \in row_orders(calls[c].snapshot) :
       LET out == compute_averages(scores_df)
       IN response' = [op |-> "get_averages", user |-> get_current_user,
                       status |-> out.status, detail |-> "", rows |-> {},
                       weekly |-> out.weekly, monthly |-> out.monthly]
  /\ calls' = [calls EXCEPT ![c] = idle_call]
  /\ UNCHANGED <<dbVars, feedback, sessionVars>>

\* a write committed while requests are in flight: each of them has now
\* lived through one more observation set
write_observed ==
  /\ calls' = [c \in Clients |->
                 IF calls[c].pc = "read"
                 THEN [calls[c] EXCEPT
                         !.seen = @ \cup {select_scores(get_current_user)'}]
                 ELSE calls[c]]
  /\ UNCHANGED <<feedback, sessionVars>>

\* RKBobe has one subject with one behaviour definition
InitConcurrent ==
  /\ subjects = {[subjectid |-> 1, username |-> get_current_user,
                  subjectlabel |-> "a"]}
  /\ definitions = {[definitionid |-> 1, subjectid |-> 1,
                     username |-> get_current_user, behaviorname |-> "b",
                     description |-> "d"]}
  /\ daily_scores = {}
  /\ nextSubjectID = 2
  /\ nextDefinitionID = 2
  /\ nextLogID = 1
  /\ response = Reply("add_definition", get_current_user, 200, "", {})
  /\ feedback = <<>>
  /\ no_request_in_flight
  /\ no_session

NextConcurrent ==
  \/ \E c \in Clients : get_averages_read(c)
  \/ \E c \in Clients : get_averages_return(c)
  \/ nextLogID <= MaxLogID /\ add_score(StoreDates, StoreScores) /\ write_observed
  \/ nextLogID <= MaxLogID /\ BehaviorTracker_log_score(StoreDates, StoreScores) /\ write_observed
  \/ delete_definition /\ write_observed

SpecConcurrent == InitConcurrent /\ [][NextConcurrent]_vars

(***************************************************************************)
(* api.py: the feedback endpoint.                                          *)
(***************************************************************************)
FeedbackTexts == {"f"}

submit_feedback ==
  \E feedback_text \in FeedbackTexts :
    /\ feedback' = Append(feedback, [username |-> get_current_user,
                                     feedback_text |-> feedback_text])
    /\ response' = Reply("submit_feedback", get_current_user, 201, "", {})
    /\ UNCHANGED dbVars

(***************************************************************************)
(* app.py: the Streamlit dashboard.  One action is one script run that     *)
(* handles one widget event.  The dashboard builds its tracker with        *)
(* BehaviorTracker(base_api_url=...): each tracker method is taken to      *)
(* issue the request of the same name to the API, which answers as         *)
(* get_current_user whatever username the dashboard passes.                *)
(***************************************************************************)
tracker_add_subject == add_subject
tracker_add_behavior_definition == add_definition
tracker_log_score == add_score(StoreDates, StoreScores)
tracker_get_all_averages == get_averages
tracker_update_subject == update_subject
tracker_update_definition == update_definition
tracker_delete_subject == delete_subject
tracker_delete_definition == delete_definition
tracker_get_daily_scores == get_scores
tracker_submit_feedback == submit_feedback
\* tracker.get_subjects(username) / tracker.get_definitions(username)
user_subjects_df == {x \in subjects : x.username = get_current_user}
user_defs_df == joined_definitions(get_current_user)

\* the login gate: what the script renders below the login form
gate_view_truthy_or_false(status) ==
  IF status \in {"True", "False"}
  THEN {"Data Entry & Plotting", "Data Management", "Raw Data Tables",
        "Submit Feedback"}
  ELSE {"Please login to continue.", "register_user"}

gate_view(status) ==
  IF status = "True"
  THEN {"Data Entry & Plotting", "Data Management", "Raw Data Tables",
        "Submit Feedback"}
  ELSE IF status = "False" THEN {"Username/password is incorrect"}
  ELSE IF status = "None" THEN {"Please login to continue.", "register_user"}
  ELSE {}

shows(element) == element \in gate_view(authentication_status)

\* authenticator.login(): the form is there until the login succeeds
login ==
  /\ authentication_status # "True"
  /\ \E user \in Users, password_matches \in BOOLEAN :
       IF user \in credentials /\ password_matches
       THEN /\ authentication_status' = "True"
            /\ session_username' = Some(user)
       ELSE /\ authentication_status' = "False"
            /\ session_username' = absent
  /\ UNCHANGED <<dbVars, response, feedback, calls, credentials,
                 weekly_df, monthly_df, plot_data>>

\* authenticator.logout('Logout', 'sidebar')
logout ==
  /\ authentication_status = "True"
  /\ authentication_status' = "None"
  /\ session_username' = absent
  /\ UNCHANGED <<dbVars, response, feedback, calls, credentials,
                 weekly_df, monthly_df, plot_data>>

\* authenticator.register_user(...) and the dump of config.yaml
register_user ==
  /\ shows("register_user")
  /\ \E user \in Users \ credentials : credentials' = credentials \cup {user}
  /\ UNCHANGED <<dbVars, response, feedback, calls, authentication_status,
                 session_username, weekly_df, monthly_df, plot_data>>

\* what a form submission leaves alone
formVars == <<calls, credentials, authentication_status, session_username,
              weekly_df, monthly_df, plot_data>>

add_subject_form ==
  /\ shows("Data Entry & Plotting")
  /\ tracker_add_subject
  /\ UNCHANGED <<feedback, formVars>>

\* the id comes from the select box over user_subjects_df
add_definition_form ==
  /\ shows("Data Entry & Plotting")
  /\ user_subjects_df # {}
  /\ tracker_add_behavior_definition
  /\ \E x \in definitions' \ definitions :
       x.subjectid \in {y.subjectid : y \in user_subjects_df}
  /\ UNCHANGED <<feedback, formVars>>

\* the id comes from the select box over user_defs_df
log_score_form ==
  /\ shows("Data Entry & Plotting")
  /\ user_defs_df # {}
  /\ tracker_log_score
  /\ \E x \in daily_scores' \ daily_scores :
       x.definitionid \in {y.definitionid : y \in user_defs_df}
  /\ UNCHANGED <<feedback, formVars>>

\* a recomputation that stores the weekly frame and keeps the old monthly one
calculate_averages_weekly_only ==
  /\ shows("Data Entry & Plotting")
  /\ tracker_get_all_averages
  /\ weekly_df' = Some(response'.weekly)
  /\ UNCHANGED <<feedback, calls, credentials, authentication_status,
                 session_username, monthly_df, plot_data>>

\* the "Calculate Averages" button
calculate_averages ==
  /\ shows("Data Entry & Plotting")
  /\ tracker_get_all_averages
  /\ weekly_df' = Some(response'.weekly)
  /\ monthly_df' = Some(response'.monthly)
  /\ UNCHANGED <<feedback, calls, credentials, authentication_status,
                 session_username, plot_data>>

(***************************************************************************)
(* The chart.  Text is the sequence of its code points: "2023-W01" is      *)
(* <<50, 48, 50, 51, 45, 87, 48, 49>>.                                     *)
(***************************************************************************)
\* str(n) / astype(str) of a non-negative integer
RECURSIVE str(_)
str(n) == IF n < 10 THEN <<48 + n>> ELSE str(n \div 10) \o <<48 + (n % 10)>>

\* str.zfill(width)
RECURSIVE zfill(_, _)
zfill(t, width) == IF Len(t) >= width THEN t ELSE zfill(<<48>> \o t, width)

\* strftime('%b'): Jan Feb Mar Apr May Jun Jul Aug Sep Oct Nov Dec
month_abbr(m) ==
  CASE m = 1 -> <<74, 97, 110>>   [] m = 2 -> <<70, 101, 98>>
    [] m = 3 -> <<77, 97, 114>>   [] m = 4 -> <<65, 112, 114>>
    [] m = 5 -> <<77, 97, 121>>   [] m = 6 -> <<74, 117, 110>>
    [] m = 7 -> <<74, 117, 108>>  [] m = 8 -> <<65, 117, 103>>
    [] m = 9 -> <<83, 101, 112>>  [] m = 10 -> <<79, 99, 116>>
    [] m = 11 -> <<78, 111, 118>> [] m = 12 -> <<68, 101, 99>>

\* year + "-W" + weekofyear.zfill(2)
weekly_time_period(r) == str(r.year) \o <<45, 87>> \o zfill(str(r.weekofyear), 2)
\* to_datetime(year, month, DAY=1).strftime('%Y-%b')
monthly_time_period(r) == str(r.year) \o <<45>> \o month_abbr(r.month)

\* avg_df['Time Period'] = ...: the column is added to the held dataframe
with_weekly_time_period(df) ==
  [i \in DOMAIN df |->
     [definitionid |-> df[i].definitionid, year |-> df[i].year,
      weekofyear |-> df[i].weekofyear, averagescore |-> df[i].averagescore,
      datapointscount |-> df[i].datapointscount,
      TimePeriod |-> weekly_time_period(df[i])]]

with_monthly_time_period(df) ==
  [i \in DOMAIN df |->
     [definitionid |-> df[i].definitionid, year |-> df[i].year,
      month |-> df[i].month, averagescore |-> df[i].averagescore,
      datapointscount |-> df[i].datapointscount,
      TimePeriod |-> monthly_time_period(df[i])]]

\* the order of Python str values
str_less(a, b) ==
  \/ \E i \in DOMAIN a \cap DOMAIN b :
       a[i] < b[i] /\ \A j \in 1..(i - 1) : a[j] = b[j]
  \/ Len(a) < Len(b) /\ \A j \in DOMAIN a : a[j] = b[j]

\* df.sort_values(by='Time Period'): the rows in ascending label order
sort_values(df) ==
  {f \in row_orders({df[i] : i \in DOMAIN df}) :
     \A i, j \in DOMAIN f : i < j => ~str_less(f[j].TimePeriod, f[i].TimePeriod)}

\* the selectbox and the radio button of the chart, and the chart itself
draw_chart ==
  /\ shows("Data Entry & Plotting")
  /\ weekly_df # absent
  /\ user_defs_df # {}
  /\ \E behavior_to_plot \in {x.definitionid : x \in user_defs_df},
        period_to_plot \in {"Weekly", "Monthly"} :
       LET avg_df == IF period_to_plot = "Weekly"
                     THEN with_weekly_time_period(weekly_df[1])
                     ELSE with_monthly_time_period(monthly_df[1])
           selected == SelectSeq(avg_df,
                                 LAMBDA r : r.definitionid = behavior_to_plot)
       IN /\ weekly_df' = IF period_to_plot = "Weekly"
                          THEN Some(avg_df) ELSE weekly_df
          /\ monthly_df' = IF period_to_plot = "Monthly"
                           THEN Some(avg_df) ELSE monthly_df
          /\ IF avg_df = <<>>
             THEN plot_data' = absent
             ELSE \E plot \in sort_values(selected) : plot_data' = Some(plot)
  /\ UNCHANGED <<dbVars, response, feedback, calls, credentials,
                 authentication_status, session_username>>

\* the forms of the management tab pick an id from their select box
update_subject_form ==
  /\ shows("Data Management")
  /\ user_subjects_df # {}
  /\ tracker_update_subject
  /\ response'.status = 200
  /\ UNCHANGED <<feedback, formVars>>

update_definition_form ==
  /\ shows("Data Management")
  /\ user_defs_df # {}
  /\ tracker_update_definition
  /\ response'.status = 200
  /\ UNCHANGED <<feedback, formVars>>

delete_subject_form ==
  /\ shows("Data Management")
  /\ user_subjects_df # {}
  /\ tracker_delete_subject
  /\ response'.status = 204
  /\ UNCHANGED <<feedback, formVars>>

delete_definition_form ==
  /\ shows("Data Management")
  /\ user_defs_df # {}
  /\ tracker_delete_definition
  /\ response'.status = 204
  /\ UNCHANGED <<feedback, formVars>>

raw_data_tab ==
  /\ shows("Raw Data Tables")
  /\ tracker_get_daily_scores
  /\ UNCHANGED <<feedback, formVars>>

feedback_form ==
  /\ shows("Submit Feedback")
  /\ tracker_submit_feedback
  /\ UNCHANGED formVars

NextDashboard ==
  \/ login
  \/ logout
  \/ register_user
  \/ rows_inserted + Len(feedback) < MaxSessionRows /\ add_subject_form
  \/ rows_inserted + Len(feedback) < MaxSessionRows /\ add_definition_form
  \/ rows_inserted + Len(feedback) < MaxSessionRows /\ log_score_form
  \/ calculate_averages
  \/ draw_chart
  \/ update_subject_form
  \/ update_definition_form
  \/ delete_subject_form
  \/ delete_definition_form
  \/ raw_data_tab
  \/ rows_inserted + Len(feedback) < MaxSessionRows /\ feedback_form

SpecDashboard == Init /\ [][NextDashboard]_vars

(***************************************************************************)
(* The chart over averages of several weeks and months: a logged-in        *)
(* session over a store with one subject and two behaviour definitions     *)
(* holds the frames of an earlier "Calculate Averages", each in the key    *)
(* order in which groupby returns its rows.                                *)
(***************************************************************************)
WeeklyPeriods == {<<2022, 52>>, <<2023, 1>>, <<2023, 2>>, <<2023, 10>>}
MonthlyPeriods == {<<2022, 12>>, <<2023, 1>>, <<2023, 2>>, <<2023, 4>>}

weekly_frame(keys) ==
  LET ks == sorted_keys(keys)
  IN [n \in DOMAIN ks |->
        [definitionid |-> ks[n][1], year |-> ks[n][2], weekofyear |-> ks[n][3],
         averagescore |-> [num |-> 3, den |-> 1], datapointscount |-> 1]]

monthly_frame(keys) ==
  LET ks == sorted_keys(keys)
  IN [n \in DOMAIN ks |->
        [definitionid |-> ks[n][1], year |-> ks[n][2], month |-> ks[n][3],
         averagescore |-> [num |-> 3, den |-> 1], datapointscount |-> 1]]

\* the key sets of at most MaxPlotRows rows
frame_keys(periods) ==
  {keys \in SUBSET {<<did, p[1], p[2]>> : did \in 1..2, p \in periods} :
     Cardinality(keys) <= MaxPlotRows}

InitPlot ==
  /\ subjects = {[subjectid |-> 1, username |-> get_current_user,
                  subjectlabel |-> "a"]}
  /\ definitions = {[definitionid |-> i, subjectid |-> 1,
                     username |-> get_current_user, behaviorname |-> "b",
                     description |-> "d"] : i \in 1..2}
  /\ daily_scores = {}
  /\ nextSubjectID = 2
  /\ nextDefinitionID = 3
  /\ nextLogID = 1
  /\ feedback = <<>>
  /\ no_request_in_flight
  /\ credentials = {get_current_user}
  /\ authentication_status = "True"
  /\ session_username = Some(get_current_user)
  /\ \E wk \in frame_keys(WeeklyPeriods), mk \in frame_keys(MonthlyPeriods) :
       /\ weekly_df = Some(weekly_frame(wk))
       /\ monthly_df = Some(monthly_frame(mk))
       /\ response = [op |-> "get_averages", user |-> get_current_user,
                      status |-> 200, detail |-> "", rows |-> {},
                      weekly |-> weekly_frame(wk), monthly |-> monthly_frame(mk)]
  /\ plot_data = absent

NextPlot == draw_chart

SpecPlot == InitPlot /\ [][NextPlot]_vars

(***************************************************************************)
(* Properties.  They read the last response against the store it was       *)
(* computed from: every operation sets response, so a response of          *)
(* get_averages always belongs to the current daily_scores.                *)
(***************************************************************************)
Range(f) == {f[i] : i \in DOMAIN f}

\* the sum of the scores of a set of observations
RECURSIVE SumScores(_)
SumScores(S) ==
  IF S = {} THEN 0
  ELSE LET x == CHOOSE y \in S : TRUE IN x.score[1] + SumScores(S \ {x})

\* the sum of the sample counts of a sequence of average rows
RECURSIVE SumCounts(_)
SumCounts(rows) ==
  IF rows = <<>> THEN 0 ELSE Head(rows).datapointscount + SumCounts(Tail(rows))

AveragesReturned == response.op = "get_averages"
AveragesOk == response.op = "get_averages" /\ response.status = 200

\* the owner's observations, and those that survive sanitization
Observations == {o \in daily_scores : o.username = response.user}
Parseable(d) == date_le(TimestampMin, d) /\ date_le(d, TimestampMax)
Sanitized == {o \in Observations : Parseable(o.date) /\ o.score # NULL}

\* ISO 8601 stated from its definition: a Monday-start week belongs to the
\* year that holds its Thursday, and week 1 holds the year's first Thursday
ThursdayOf(d) == ymd2ord(d) - ((ymd2ord(d) + 6) % 7) + 3
IsoWeekYear(d) ==
  CHOOSE y \in (d[1] - 1)..(d[1] + 1) :
    ymd2ord(<<y, 1, 1>>) <= ThursdayOf(d) /\ ThursdayOf(d) < ymd2ord(<<y + 1, 1, 1>>)
IsoWeek(d) == ((ThursdayOf(d) - ymd2ord(<<IsoWeekYear(d), 1, 1>>)) \div 7) + 1

WeekKey(o) == <<o.definitionid, IsoWeekYear(o.date), IsoWeek(o.date)>>
GregorianMonthKey(o) == <<o.definitionid, o.date[1], o.date[2]>>
\* the key of the monthly grouping as computed: the 'year' column and the month
YearColumnMonthKey(o) == <<o.definitionid, IsoWeekYear(o.date), o.date[2]>>

WeeklyRowKey(r) == <<r.definitionid, r.year, r.weekofyear>>
MonthlyRowKey(r) == <<r.definitionid, r.year, r.month>>

CountOf(r) == r.datapointscount

\* C1: the monthly output has exactly one row per (definition_id, Gregorian
\* year, Gregorian month) present among the sanitized observations, so two
\* observations of a definition share a monthly row iff their dates have the
\* same Gregorian year and month.
C1_MonthlyRowPerGregorianMonth ==
  AveragesOk =>
    /\ {MonthlyRowKey(r) : r \in Range(response.monthly)}
         = {GregorianMonthKey(o) : o \in Sanitized}
    /\ Len(response.monthly) = Cardinality({GregorianMonthKey(o) : o \in Sanitized})

\* C2: the weekly output has exactly one row per (definition_id, ISO
\* week-year, ISO week) of the sanitized observations, each holding the
\* observations of that key; 2023-01-01 is keyed (2022, 52), never (2023, 1).
C2_WeeklyRowPerIsoWeek ==
  AveragesOk =>
    /\ {WeeklyRowKey(r) : r \in Range(response.weekly)}
         = {WeekKey(o) : o \in Sanitized}
    /\ Len(response.weekly) = Cardinality({WeekKey(o) : o \in Sanitized})
    /\ \A r \in Range(response.weekly) :
         CountOf(r) = Cardinality({o \in Sanitized : WeekKey(o) = WeeklyRowKey(r)})
    /\ \A o \in Sanitized :
         o.date = <<2023, 1, 1>> =>
           /\ \E r \in Range(response.weekly) :
                WeeklyRowKey(r) = <<o.definitionid, 2022, 52>>
           /\ WeekKey(o) # <<o.definitionid, 2023, 1>>

C2_Witness ==
  /\ AveragesOk
  /\ \E o1, o2 \in Sanitized :
       /\ o1.date = <<2023, 1, 1>>
       /\ o2.definitionid = o1.definitionid
       /\ o2.date = <<2023, 1, 2>>
  /\ Len(response.weekly) = 2

\* C3: every sanitized observation contributes to exactly one weekly row and
\* exactly one monthly row: the sample counts of the weekly rows and of the
\* monthly rows both add up to the number of sanitized observations.
C3_OneWeeklyOneMonthlyRow ==
  AveragesOk =>
    /\ SumCounts(response.weekly)
         = Cardinality(Sanitized)
    /\ SumCounts(response.monthly)
         = Cardinality(Sanitized)
    /\ \A o \in Sanitized :
         /\ Cardinality({n \in DOMAIN response.weekly :
                           WeeklyRowKey(response.weekly[n]) = WeekKey(o)}) = 1
         /\ Cardinality({n \in DOMAIN response.monthly :
                           MonthlyRowKey(response.monthly[n]) = YearColumnMonthKey(o)}) = 1

C3_Witness ==
  /\ AveragesOk
  /\ Cardinality(Sanitized) = 2
  /\ Cardinality(Observations) = 2
  /\ Len(response.weekly) = 2
  /\ Len(response.monthly) = 1

\* C4: every weekly and every monthly row has a sample count of at least 1,
\* equal to the number of sanitized observations of the row's definition
\* whose period (ISO week; Gregorian year and month) is the row's key.
C4_CountIsObservationsOfPeriod ==
  AveragesOk =>
    /\ \A r \in Range(response.weekly) :
         /\ CountOf(r) >= 1
         /\ CountOf(r) = Cardinality({o \in Sanitized : WeekKey(o) = WeeklyRowKey(r)})
    /\ \A r \in Range(response.monthly) :
         /\ CountOf(r) >= 1
         /\ CountOf(r) =
              Cardinality({o \in Sanitized : GregorianMonthKey(o) = MonthlyRowKey(r)})

\* C5: the average of every row is the unrounded mean of the scores of the
\* observations grouped into it: average * sample_count = sum of scores.
C5_AverageIsUnroundedMean ==
  AveragesOk =>
    /\ \A r \in Range(response.weekly) :
         /\ r.averagescore.den > 0
         /\ r.averagescore.num * CountOf(r) =
              r.averagescore.den *
                SumScores({o \in Sanitized : WeekKey(o) = WeeklyRowKey(r)})
    /\ \A r \in Range(response.monthly) :
         /\ r.averagescore.den > 0
         /\ r.averagescore.num * CountOf(r) =
              r.averagescore.den *
                SumScores({o \in Sanitized : YearColumnMonthKey(o) = MonthlyRowKey(r)})

C5_Witness ==
  /\ AveragesOk
  /\ \E r \in Range(response.weekly) :
       /\ CountOf(r) = 2
       /\ SumScores({o \in Sanitized : WeekKey(o) = WeeklyRowKey(r)}) = 7

ExpectedRow(S, k) ==
  [key |-> k, sum |-> SumScores(S), n |-> Cardinality(S)]
ExpectedWeekly ==
  {ExpectedRow({o \in Sanitized : WeekKey(o) = k}, k) :
     k \in {WeekKey(o) : o \in Sanitized}}
ExpectedMonthly ==
  {ExpectedRow({o \in Sanitized : YearColumnMonthKey(o) = k}, k) :
     k \in {YearColumnMonthKey(o) : o \in Sanitized}}
\* a returned row, its average taken as the exact sum over the count
WeeklyShape(r) ==
  [key |-> WeeklyRowKey(r),
   sum |-> (r.averagescore.num * CountOf(r)) \div r.averagescore.den,
   n |-> CountOf(r)]
MonthlyShape(r) ==
  [key |-> MonthlyRowKey(r),
   sum |-> (r.averagescore.num * CountOf(r)) \div r.averagescore.den,
   n |-> CountOf(r)]

\* C6: an observation with an unparseable date or a missing score
\* contributes to no row and does not make the computation fail: the rows
\* returned are exactly the rows of the valid observations alone.
C6_InvalidObservationsDropped ==
  AveragesReturned =>
    /\ response.status = 200
    /\ {WeeklyShape(r) : r \in Range(response.weekly)} = ExpectedWeekly
    /\ Len(response.weekly) = Cardinality(ExpectedWeekly)
    /\ {MonthlyShape(r) : r \in Range(response.monthly)} = ExpectedMonthly
    /\ Len(response.monthly) = Cardinality(ExpectedMonthly)

C6_Witness ==
  /\ AveragesReturned
  /\ \E o \in Observations : ~Parseable(o.date) \/ o.score = NULL
  /\ Sanitized # {}
  /\ response.weekly # <<>>

\* C7: with no observations, or with every observation dropped by
\* sanitization, the result is an empty weekly and an empty monthly
\* sequence, and no error.
C7_EmptyInputEmptyOutput ==
  (AveragesReturned /\ Sanitized = {}) =>
    /\ response.status = 200
    /\ response.weekly = <<>>
    /\ response.monthly = <<>>

C7_Witness ==
  /\ AveragesReturned
  /\ Observations # {}
  /\ \E o \in Observations : o.score = NULL
  /\ Sanitized = {}
  /\ response.weekly = <<>>

\* C10: two averages computations for one owner with no write in between
\* return the same set of weekly rows and the same set of monthly rows,
\* whatever order the store returns the rows in.
C10_RecomputationIdempotent ==
  [][(/\ response.op = "get_averages"
      /\ response'.op = "get_averages"
      /\ response'.user = response.user)
     => /\ response'.status = response.status
        /\ Range(response'.weekly) = Range(response.weekly)
        /\ Range(response'.monthly) = Range(response.monthly)]_vars

C10_Witness ==
  /\ AveragesOk
  /\ \E o1, o2 \in Sanitized :
       /\ o1 # o2
       /\ WeekKey(o1) = WeekKey(o2)
       /\ o1.score # o2.score

\* the owner of a subject id / definition id in the current store
SubjectOwners(sid) == {x.username : x \in {y \in subjects : y.subjectid = sid}}
DefinitionOwners(did) ==
  {x.username : x \in {y \in definitions : y.definitionid = did}}

\* C8: an operation issued by user U never returns, modifies or deletes a
\* subject, definition or observation row of another username, and never
\* creates a row attached to a parent row owned by another username.
C8_OwnershipFilterOnEveryOperation ==
  [][/\ \A r \in response'.rows : r.username = response'.user
     /\ \A x \in subjects : x.username # response'.user => x \in subjects'
     /\ \A x \in definitions : x.username # response'.user => x \in definitions'
     /\ \A x \in daily_scores : x.username # response'.user => x \in daily_scores'
     /\ \A x \in definitions' \ definitions :
          SubjectOwners(x.subjectid) \subseteq {response'.user}
     /\ \A x \in daily_scores' \ daily_scores :
          DefinitionOwners(x.definitionid) \subseteq {response'.user}]_vars

\* C9: a logged observation is never changed, and it leaves the store only
\* in the step that deletes its parent definition (directly, or through the
\* deletion of that definition's subject).
C9_ObservationImmutableUntilCascade ==
  [][/\ \A o \in daily_scores :
          \/ o \in daily_scores'
          \/ /\ \A x \in daily_scores' : x.logid # o.logid
             /\ response'.op \in {"delete_definition", "delete_subject"}
             /\ DefinitionOwners(o.definitionid) # {}
             /\ \A d \in definitions' : d.definitionid # o.definitionid
     /\ \A x \in daily_scores' \ daily_scores :
          /\ x.logid = nextLogID
          /\ response'.op \in {"add_score", "BehaviorTracker.log_score"}]_vars

C9_Witness ==
  /\ response.op = "delete_definition"
  /\ response.status = 204
  /\ daily_scores # {}
  /\ nextLogID = 2

\* C11: an averages computation changes no row of subjects, definitions or
\* daily_scores and consumes no id, whether it returns rows or the empty
\* result; and what it returns is determined by the store alone, not by any
\* earlier call.
C11_AveragesHaveNoSideEffects ==
  [][response'.op = "get_averages" =>
       /\ UNCHANGED dbVars
       /\ \E scores_df \in row_orders(select_scores(response'.user)) :
            /\ response'.weekly = compute_averages(scores_df).weekly
            /\ response'.monthly = compute_averages(scores_df).monthly]_vars

C11_Witness ==
  /\ AveragesOk
  /\ response.weekly # <<>>
  /\ \E o \in Observations : o.score = NULL
  /\ subjects # {}
  /\ definitions # {}

\* C14: an update or delete of a subject or definition that matches no row
\* of the caller (unknown id, or a row of another username) is answered with
\* status 404 and the detail "not found or user does not have permission".
C14_MissAnsweredWith404 ==
  (/\ response.op \in {"update_subject", "delete_subject",
                       "update_definition", "delete_definition"}
   /\ response.status \notin {200, 204})
  => /\ response.status = 404
     /\ response.detail \in
          {"Subject not found or user does not have permission",
           "Definition not found or user does not have permission"}

\* C15: every definition references an existing subject and every
\* observation references an existing definition, in every reachable state;
\* so after a subject is deleted none of its definitions and none of their
\* observations remain.
C15_SubjectDeletionCascades ==
  /\ \A d \in definitions : subject_exists(d.subjectid)
  /\ \A o \in daily_scores : definition_exists(o.definitionid)
  /\ \A s \in subjects : s.subjectid < nextSubjectID
  /\ \A d \in definitions : d.definitionid < nextDefinitionID

C15_Witness ==
  /\ response.op = "delete_subject"
  /\ response.status = 204
  /\ subjects = {}
  /\ definitions = {}
  /\ daily_scores = {}
  /\ nextSubjectID = 2
  /\ nextDefinitionID = 2
  /\ nextLogID = 2

\* C17: ownership is the same along the parent chain: a definition carries
\* the username of its subject and an observation the username of its
\* definition.
C17_OwnershipConsistentAlongChain ==
  /\ \A d \in definitions : SubjectOwners(d.subjectid) \subseteq {d.username}
  /\ \A o \in daily_scores : DefinitionOwners(o.definitionid) \subseteq {o.username}

\* C12: a get_averages request that runs interleaved with other requests
\* and with writes answers with the weekly and the monthly averages of one
\* and the same observation set of the caller, a set that existed between
\* its SELECT and its response; and neither of its steps changes the store,
\* so no other operation sees a different store because of it.
C12_ConcurrentAveragesReadOneSnapshot ==
  [][\A c \in Clients :
       /\ calls'[c].pc # calls[c].pc => UNCHANGED dbVars
       /\ (calls[c].pc = "read" /\ calls'[c].pc = "idle") =>
            /\ response'.op = "get_averages"
            /\ \E seen \in calls[c].seen : \E scores_df \in row_orders(seen) :
                 /\ response'.status = compute_averages(scores_df).status
                 /\ Range(response'.weekly) =
                      Range(compute_averages(scores_df).weekly)
                 /\ Range(response'.monthly) =
                      Range(compute_averages(scores_df).monthly)]_vars

\* one request has just answered with rows while another request, whose
\* SELECT saw a different observation set and which has lived through a
\* write of the caller since, is still in flight
C12_Witness ==
  /\ response.op = "get_averages"
  /\ response.weekly # <<>>
  /\ \E c \in Clients :
       /\ calls[c].pc = "read"
       /\ Cardinality(calls[c].seen) >= 2
       /\ \A scores_df \in row_orders(calls[c].snapshot) :
            response.weekly # compute_averages(scores_df).weekly

\* a held dataframe without the label column the chart adds to it
WithoutTimePeriod(held) ==
  [i \in DOMAIN held[1] |->
     [f \in DOMAIN held[1][i] \ {"TimePeriod"} |-> held[1][i][f]]]

\* C13: the session holds no averages before the first "Calculate Averages";
\* weekly_df and monthly_df are set together; their rows change only in a
\* "Calculate Averages" step, which replaces both with the weekly and the
\* monthly output of the one recomputation it requested.
C13_HeldAveragesComeFromOneRecomputation ==
  /\ weekly_df = absent /\ monthly_df = absent
  /\ [](weekly_df = absent <=> monthly_df = absent)
  /\ [][(weekly_df' # absent /\ monthly_df' # absent) =>
          \/ /\ response'.op = "get_averages"
             /\ WithoutTimePeriod(weekly_df') = response'.weekly
             /\ WithoutTimePeriod(monthly_df') = response'.monthly
          \/ /\ weekly_df # absent /\ monthly_df # absent
             /\ WithoutTimePeriod(weekly_df') = WithoutTimePeriod(weekly_df)
             /\ WithoutTimePeriod(monthly_df') = WithoutTimePeriod(monthly_df)]_vars

\* averages were calculated and charted, the data then deleted, and a second
\* "Calculate Averages" has replaced both held frames with its empty result
C13_Witness ==
  /\ response.op = "get_averages"
  /\ plot_data # absent
  /\ plot_data[1] # <<>>
  /\ weekly_df = Some(<<>>)
  /\ monthly_df = Some(<<>>)

\* a request reaches the store, or the held averages or the chart change
StoreOperationIssued ==
  \/ response' # response
  \/ dbVars' # dbVars
  \/ feedback' # feedback
  \/ <<weekly_df, monthly_df, plot_data>>' # <<weekly_df, monthly_df, plot_data>>

\* C16: the gate shows the four tabs only for authentication status True,
\* only the incorrect-credentials error for False, and only the login
\* warning and the registration form for None; and no step of the dashboard
\* issues a store operation unless the authentication status is True.
C16_LoginGateGuardsStoreOperations ==
  /\ [](authentication_status \in {"True", "False", "None"})
  /\ [](authentication_status = "False" =>
          gate_view(authentication_status) = {"Username/password is incorrect"})
  /\ [](authentication_status = "None" =>
          gate_view(authentication_status) =
            {"Please login to continue.", "register_user"})
  /\ [](shows("Data Entry & Plotting") \/ shows("Data Management")
        \/ shows("Raw Data Tables") \/ shows("Submit Feedback")
          => authentication_status = "True")
  /\ [][StoreOperationIssued => authentication_status = "True"]_vars

\* a failed login after a subject and a behaviour were entered and feedback
\* was sent in an earlier, authenticated part of the session
C16_Witness ==
  /\ authentication_status = "False"
  /\ definitions # {}
  /\ feedback # <<>>
  /\ response.op = "submit_feedback"

\* the (year, week) or (year, month) of a charted row
PeriodOf(r) ==
  IF "weekofyear" \in DOMAIN r THEN <<r.year, r.weekofyear>>
  ELSE <<r.year, r.month>>

\* C18: the rows of a chart, sorted by their display label, are in
\* chronological order: a row with an earlier (year, week) or (year, month)
\* comes before a row with a later one.
C18_LabelOrderIsChronological ==
  plot_data # absent =>
    \A i, j \in DOMAIN plot_data[1] :
      lex_less(PeriodOf(plot_data[1][i]), PeriodOf(plot_data[1][j])) => i < j
====
